---- MODULE Spec2Model ----
(***************************************************************************)
(* Bencode decoder of rustorrent (src/bencode.rs), as a state machine.     *)
(*                                                                         *)
(* The decoder is a recursive descent over a Peekable byte iterator.  The  *)
(* recursion (lists and dicts holding objects) is an explicit stack of     *)
(* frames; the non-recursive rules (integer, string) are single steps.     *)
(* u64/i64 values are four 16-bit limbs, least significant first, so that  *)
(* the 64-bit width of the arithmetic is kept.                             *)
(***************************************************************************)
EXTENDS Integers, Sequences, FiniteSets, TLC

VARIABLES input, overflow_checks, bytes, pc, stack, ret, start, calls,
          iters, invocations

vars == <<input, overflow_checks, bytes, pc, stack, ret, start, calls,
          iters, invocations>>

(***************************************************************************)
(* Bounds of the model.                                                    *)
(***************************************************************************)
MaxLen == 4
MaxElems == 2
MaxPairs == 2
MaxStr == 2
MaxCalls == 2

(***************************************************************************)
(* Bytes the decoder compares against.                                     *)
(***************************************************************************)
B_d == 100
B_i == 105
B_l == 108
B_e == 101
B_colon == 58
B_minus == 45
B_0 == 48

(***************************************************************************)
(* Option<T>: None is the empty sequence, Some(v) a one-element sequence.  *)
(***************************************************************************)
None == <<>>
Some(v) == <<v>>

(***************************************************************************)
(* The document model.                                                     *)
(***************************************************************************)
I(n) == [I |-> n]
S(b) == [S |-> b]
L(v) == [L |-> v]
D(h) == [D |-> h]

(***************************************************************************)
(* Result<BenObject, String>, and a panic of the process.                  *)
(***************************************************************************)
Ok(o) == [ok |-> o]
Err(m) == [err |-> m]
Panic(m) == [panic |-> m]
NoRet == [none |-> TRUE]
IsOk(r) == "ok" \in DOMAIN r
IsErr(r) == "err" \in DOMAIN r
IsPanic(r) == "panic" \in DOMAIN r

ObjectNotFound == "BenObject not found"
MalformedDict == "parsing dict failed: expected 'e'"
MalformedInteger == "parsing integer failed: expected 'e'"
MalformedList == "parsing list failed: expected 'e'"
MalformedString == "parsing string failed: expected ':'"
LengthMismatch == "parsing string failed: length mismatches"

(***************************************************************************)
(* 64-bit arithmetic on limbs.                                             *)
(***************************************************************************)
Base == 2 ^ 16
Zero64 == <<0, 0, 0, 0>>
MinI64 == <<0, 0, 0, Base \div 2>>
FromNat(n) == <<n % Base, (n \div Base) % Base, 0, 0>>

\* num * 10 + d in u64: the wrapped value and whether it left the range.
MulAdd10(num, d) ==
    LET t1 == num[1] * 10 + d
        t2 == num[2] * 10 + (t1 \div Base)
        t3 == num[3] * 10 + (t2 \div Base)
        t4 == num[4] * 10 + (t3 \div Base)
    IN  [val |-> <<t1 % Base, t2 % Base, t3 % Base, t4 % Base>>,
         ovf |-> (t4 \div Base) > 0]

\* -1 * x in i64: the wrapped value (two's complement negation).
WrappingNeg(x) ==
    LET t1 == (Base - 1 - x[1]) + 1
        t2 == (Base - 1 - x[2]) + (t1 \div Base)
        t3 == (Base - 1 - x[3]) + (t2 \div Base)
        t4 == (Base - 1 - x[4]) + (t3 \div Base)
    IN  <<t1 % Base, t2 % Base, t3 % Base, t4 % Base>>

\* sign * (x as i64): the u64 bits are reinterpreted, then multiplied.
SignMul(sign, x) ==
    IF sign = 1
    THEN [val |-> x, ovf |-> FALSE]
    ELSE [val |-> WrappingNeg(x), ovf |-> x = MinI64]

(***************************************************************************)
(* The byte source and the Peekable around it.  bytes.pulled is the number *)
(* of bytes drawn from the caller's iterator, bytes.peeked the Peekable's  *)
(* buffer (Option<Option<u8>>), bytes.taken the number of bytes the        *)
(* Peekable has handed out through next() in the current call.             *)
(***************************************************************************)
IterNext(cur) ==
    IF cur.pulled < Len(input)
    THEN [val |-> Some(input[cur.pulled + 1]),
          cur |-> [cur EXCEPT !.pulled = @ + 1]]
    ELSE [val |-> None, cur |-> cur]

peek(cur) ==
    IF cur.peeked # None
    THEN [val |-> cur.peeked[1], cur |-> cur]
    ELSE LET n == IterNext(cur)
         IN  [val |-> n.val, cur |-> [n.cur EXCEPT !.peeked = Some(n.val)]]

next(cur) ==
    LET n == IF cur.peeked # None
             THEN [val |-> cur.peeked[1], cur |-> [cur EXCEPT !.peeked = None]]
             ELSE IterNext(cur)
    IN  [val |-> n.val,
         cur |-> IF n.val # None THEN [n.cur EXCEPT !.taken = @ + 1] ELSE n.cur]

IsDigit(c) == c >= B_0 /\ c <= B_0 + 9

\* skip_if_match that reports the match and leaves the byte in the buffer.
skip_if_match_unconsumed(cur, ch) ==
    LET p == peek(cur)
    IN  [ok |-> p.val = Some(ch), cur |-> p.cur]

skip_if_match(cur, ch) ==
    LET p == peek(cur)
    IN  IF p.val = Some(ch)
        THEN [ok |-> TRUE, cur |-> next(p.cur).cur]
        ELSE [ok |-> FALSE, cur |-> p.cur]

RECURSIVE decode_uint_loop(_, _)
decode_uint_loop(cur, num) ==
    LET p == peek(cur)
    IN  IF p.val # None /\ IsDigit(p.val[1])
        THEN LET n == next(p.cur)
                 m == MulAdd10(num, n.val[1] - B_0)
             IN  IF m.ovf /\ overflow_checks
                 THEN [panic |-> TRUE, num |-> num, cur |-> n.cur]
                 ELSE decode_uint_loop(n.cur, m.val)
        ELSE [panic |-> FALSE, num |-> num, cur |-> p.cur]

decode_uint(cur) == decode_uint_loop(cur, Zero64)

\* bytes.by_ref().take(len).collect::<Vec<_>>()
RECURSIVE take_collect(_, _, _)
take_collect(cur, len, buf) ==
    IF FromNat(Len(buf)) = len
    THEN [buf |-> buf, cur |-> cur]
    ELSE LET n == next(cur)
         IN  IF n.val = None
             THEN [buf |-> buf, cur |-> n.cur]
             ELSE take_collect(n.cur, len, Append(buf, n.val[1]))

(***************************************************************************)
(* The non-recursive rules, each from the cursor it is entered with to its *)
(* result and the cursor it leaves.                                        *)
(***************************************************************************)
benint(cur) ==
    LET n == next(cur)
    IN  IF n.val # Some(B_i)
        THEN [ret |-> Panic("assertion failed"), cur |-> n.cur]
        ELSE
        LET m == skip_if_match(n.cur, B_minus)
            sign == IF m.ok THEN -1 ELSE 1
            u == decode_uint(m.cur)
            val == SignMul(sign, u.num)
        IN  IF u.panic
            THEN [ret |-> Panic("attempt to multiply with overflow"),
                  cur |-> u.cur]
            ELSE IF val.ovf /\ overflow_checks
            THEN [ret |-> Panic("attempt to multiply with overflow"),
                  cur |-> u.cur]
            ELSE LET e == skip_if_match(u.cur, B_e)
                 IN  IF e.ok
                     THEN [ret |-> Ok(I(val.val)), cur |-> e.cur]
                     ELSE [ret |-> Err(MalformedInteger), cur |-> e.cur]

\* decode_benstring that goes on to the bytes when the ':' is absent.
benstring_separator_optional(cur) ==
    LET u == decode_uint(cur)
        len == u.num
    IN  IF u.panic
        THEN [ret |-> Panic("attempt to multiply with overflow"),
              cur |-> u.cur]
        ELSE
        LET c == skip_if_match(u.cur, B_colon)
            t == take_collect(c.cur, len, <<>>)
        IN  IF FromNat(Len(t.buf)) = len
            THEN [ret |-> Ok(S(t.buf)), cur |-> t.cur]
            ELSE [ret |-> Err(LengthMismatch), cur |-> t.cur]

benstring(cur) ==
    LET u == decode_uint(cur)
        len == u.num
    IN  IF u.panic
        THEN [ret |-> Panic("attempt to multiply with overflow"),
              cur |-> u.cur]
        ELSE
        LET c == skip_if_match(u.cur, B_colon)
        IN  IF ~c.ok
            THEN [ret |-> Err(MalformedString), cur |-> c.cur]
            ELSE LET t == take_collect(c.cur, len, <<>>)
                 IN  IF FromNat(Len(t.buf)) = len
                     THEN [ret |-> Ok(S(t.buf)), cur |-> t.cur]
                     ELSE [ret |-> Err(LengthMismatch), cur |-> t.cur]

\* An insert that keeps the value a key already has.
insert_keep_first(hash, key, obj) ==
    [k \in (DOMAIN hash) \cup {key} |-> IF k \in DOMAIN hash THEN hash[k] ELSE obj]

\* HashMap::insert
insert(hash, key, obj) ==
    [k \in (DOMAIN hash) \cup {key} |-> IF k = key THEN obj ELSE hash[k]]

(***************************************************************************)
(* Frames of the rules that recurse.  cont is the place in the rule that   *)
(* the callee returns to.                                                  *)
(***************************************************************************)
Frame(fn, cont) ==
    [fn |-> fn, cont |-> cont, vec |-> <<>>, hash |-> <<>>, key |-> <<>>]
Top == stack[Len(stack)]
Pop == SubSeq(stack, 1, Len(stack) - 1)
SetTop(f) == [stack EXCEPT ![Len(stack)] = f]

\* A rule returns r to its caller, leaving stk as the stack of callers.
Return(r, stk) ==
    /\ ret' = r
    /\ stack' = stk
    /\ pc' = IF IsPanic(r) THEN "aborted"
             ELSE IF stk = <<>> THEN "done"
             ELSE stk[Len(stk)].cont

(***************************************************************************)
(* Inputs.  A decimal renderer (used only to build inputs and expected     *)
(* values) and the families of byte sequences the source may hold.         *)
(***************************************************************************)
DivMod10(u) ==
    LET c4 == u[4]
        c3 == (c4 % 10) * Base + u[3]
        c2 == (c3 % 10) * Base + u[2]
        c1 == (c2 % 10) * Base + u[1]
    IN  [q |-> <<c1 \div 10, c2 \div 10, c3 \div 10, c4 \div 10>>,
         r |-> c1 % 10]

RECURSIVE RenderU(_)
RenderU(u) ==
    LET dm == DivMod10(u)
    IN  IF dm.q = Zero64
        THEN <<B_0 + dm.r>>
        ELSE Append(RenderU(dm.q), B_0 + dm.r)

RECURSIVE Concat(_)
Concat(ss) == IF ss = <<>> THEN <<>> ELSE Head(ss) \o Concat(Tail(ss))

BoundedSeq(T, n) == UNION {[1..k -> T] : k \in 0..n}

\* d i l e : - 1 a
Alphabet == {B_d, B_i, B_l, B_e, B_colon, B_minus, B_0 + 1, 97}
ShortInputs == BoundedSeq(Alphabet, MaxLen)

\* "1:a"  "i1e"  "le"  ":"
ElemEncs == {<<49, 58, 97>>, <<105, 49, 101>>, <<108, 101>>, <<58>>}
Tails == {<<>>, <<B_e>>}
ListInputs ==
    {<<B_l>> \o Concat(es) \o t : es \in BoundedSeq(ElemEncs, MaxElems), t \in Tails}
MultiInputs == {Concat(es) : es \in BoundedSeq(ElemEncs, MaxElems)}

\* "1:a"  "1:b"
KeyEncs == {<<49, 58, 97>>, <<49, 58, 98>>}
\* "i1e"  "i2e"  "le"
ValEncs == {<<105, 49, 101>>, <<105, 50, 101>>, <<108, 101>>}
PairSeqs == BoundedSeq(KeyEncs \X ValEncs, MaxPairs)
DictInput(ps) ==
    <<B_d>> \o Concat([j \in 1..Len(ps) |-> ps[j][1] \o ps[j][2]]) \o <<B_e>>
DictInputs ==
    {SubSeq(DictInput(ps), 1, Len(DictInput(ps)) - k) : ps \in PairSeqs, k \in {0, 1}}

\* zero byte, 'e', ':', '1', 0xff
StrBytes == {0, B_e, B_colon, B_0 + 1, 255}
Payloads == BoundedSeq(StrBytes, MaxStr)
StringInputs ==
    {RenderU(FromNat(n)) \o <<B_colon>> \o b : n \in 0..(MaxStr + 1), b \in Payloads}

\* 0, 1, 42, 65536, floor(2^64/10), 2^63-1, 2^63, 2^63+1, 2^64-1
U64Samples ==
    {Zero64, <<1, 0, 0, 0>>, <<42, 0, 0, 0>>, <<0, 1, 0, 0>>,
     <<39321, 39321, 39321, 6553>>,
     <<65535, 65535, 65535, 32767>>, <<0, 0, 0, 32768>>, <<1, 0, 0, 32768>>,
     <<65535, 65535, 65535, 65535>>}
\* one more digit after a rendered magnitude: none, '0', '6', '7'
ExtraDigits == {<<>>, <<48>>, <<54>>, <<55>>}
IntInputs ==
    {<<B_i>> \o sg \o RenderU(u) \o x \o t :
        sg \in {<<>>, <<B_minus>>}, u \in U64Samples, x \in ExtraDigits, t \in Tails}
LongLenInputs ==
    {RenderU(u) \o x \o <<B_colon, 97>> : u \in U64Samples, x \in ExtraDigits}

Inputs ==
    ShortInputs \cup ListInputs \cup MultiInputs \cup DictInputs
        \cup StringInputs \cup IntInputs \cup LongLenInputs

(***************************************************************************)
(* The state machine.                                                      *)
(***************************************************************************)
Init ==
    /\ input \in Inputs
    /\ overflow_checks \in BOOLEAN
    /\ bytes = [peeked |-> None, pulled |-> 0, taken |-> 0]
    /\ pc = "idle"
    /\ stack = <<>>
    /\ ret = NoRet
    /\ start = 0
    /\ calls = 0
    /\ iters = 0
    /\ invocations = 0

\* BenObject::decode on the caller's source: a fresh Peekable around it.
decode ==
    /\ pc \in {"idle", "done"}
    /\ calls < MaxCalls
    /\ calls' = calls + 1
    /\ bytes' = [peeked |-> None, pulled |-> bytes.pulled, taken |-> 0]
    /\ start' = bytes.pulled
    /\ pc' = "decode_benobject"
    /\ stack' = <<>>
    /\ ret' = NoRet
    /\ iters' = 0
    /\ invocations' = 0
    /\ UNCHANGED <<input, overflow_checks>>

decode_benobject ==
    /\ pc = "decode_benobject"
    /\ LET p == peek(bytes)
       IN  /\ bytes' = p.cur
           /\ IF p.val = None
              THEN Return(Err(ObjectNotFound), stack)
              ELSE /\ pc' = CASE p.val[1] = B_d -> "decode_bendict"
                              [] p.val[1] = B_i -> "decode_benint"
                              [] p.val[1] = B_l -> "decode_benlist"
                              [] OTHER -> "decode_benstring"
                   /\ UNCHANGED <<stack, ret>>
    /\ UNCHANGED <<input, overflow_checks, start, calls, iters, invocations>>

\* decode_bendict up to its loop: the sentinel and the empty map.
decode_bendict ==
    /\ pc = "decode_bendict"
    /\ invocations' = invocations + 1
    /\ LET n == next(bytes)
       IN  /\ bytes' = n.cur
           /\ IF n.val # Some(B_d)
              THEN Return(Panic("assertion failed"), stack)
              ELSE /\ stack' = Append(stack, Frame("decode_bendict", "bendict_key"))
                   /\ pc' = "bendict_loop"
                   /\ ret' = NoRet
    /\ UNCHANGED <<input, overflow_checks, start, calls, iters>>

\* The loop test of decode_bendict: the key's decode_benstring when the
\* next byte is not 'e', the terminator and the result otherwise.
bendict_loop ==
    /\ pc = "bendict_loop"
    /\ LET p == peek(bytes)
       IN  IF p.val # Some(B_e)
           THEN /\ bytes' = p.cur
                /\ iters' = iters + 1
                /\ pc' = "decode_benstring"
                /\ stack' = SetTop([Top EXCEPT !.cont = "bendict_key"])
                /\ ret' = NoRet
           ELSE LET e == skip_if_match(p.cur, B_e)
                IN  /\ bytes' = e.cur
                    /\ iters' = iters
                    /\ IF e.ok
                       THEN Return(Ok(D(Top.hash)), Pop)
                       ELSE Return(Err(MalformedDict), Pop)
    /\ UNCHANGED <<input, overflow_checks, start, calls, invocations>>

\* decode_bendict after the key's decode_benstring has returned.
bendict_key ==
    /\ pc = "bendict_key"
    /\ IF IsErr(ret)
       THEN Return(ret, Pop)
       ELSE IF "S" \in DOMAIN ret.ok
       THEN /\ stack' = SetTop([Top EXCEPT !.key = ret.ok.S,
                                           !.cont = "bendict_value"])
            /\ pc' = "decode_benobject"
            /\ ret' = NoRet
       ELSE Return(Panic("unexpected  type"), Pop)
    /\ UNCHANGED <<input, overflow_checks, bytes, start, calls, iters, invocations>>

\* decode_bendict after the value's decode_benobject has returned.
bendict_value ==
    /\ pc = "bendict_value"
    /\ IF IsErr(ret)
       THEN Return(ret, Pop)
       ELSE /\ stack' = SetTop([Top EXCEPT !.hash = insert(@, Top.key, ret.ok)])
            /\ pc' = "bendict_loop"
            /\ ret' = NoRet
    /\ UNCHANGED <<input, overflow_checks, bytes, start, calls, iters, invocations>>

decode_benint ==
    /\ pc = "decode_benint"
    /\ invocations' = invocations + 1
    /\ LET r == benint(bytes)
       IN  /\ bytes' = r.cur
           /\ Return(r.ret, stack)
    /\ UNCHANGED <<input, overflow_checks, start, calls, iters>>

\* decode_benlist up to its loop: the sentinel and the empty vector.
decode_benlist ==
    /\ pc = "decode_benlist"
    /\ invocations' = invocations + 1
    /\ LET n == next(bytes)
       IN  /\ bytes' = n.cur
           /\ IF n.val # Some(B_l)
              THEN Return(Panic("assertion failed"), stack)
              ELSE /\ stack' = Append(stack, Frame("decode_benlist", "benlist_elem"))
                   /\ pc' = "benlist_loop"
                   /\ ret' = NoRet
    /\ UNCHANGED <<input, overflow_checks, start, calls, iters>>

\* decode_benlist whose loop also stops at the end of the input.
benlist_loop_stops_at_end ==
    /\ pc = "benlist_loop"
    /\ LET p == peek(bytes)
       IN  IF p.val # None /\ p.val # Some(B_e)
           THEN /\ bytes' = p.cur
                /\ iters' = iters + 1
                /\ pc' = "decode_benobject"
                /\ UNCHANGED <<stack, ret>>
           ELSE LET e == skip_if_match(p.cur, B_e)
                IN  /\ bytes' = e.cur
                    /\ iters' = iters
                    /\ IF e.ok
                       THEN Return(Ok(L(Top.vec)), Pop)
                       ELSE Return(Err(MalformedList), Pop)
    /\ UNCHANGED <<input, overflow_checks, start, calls, invocations>>

\* The loop test of decode_benlist: an element's decode_benobject when the
\* next byte is not 'e', the terminator and the result otherwise.
benlist_loop ==
    /\ pc = "benlist_loop"
    /\ LET p == peek(bytes)
       IN  IF p.val # Some(B_e)
           THEN /\ bytes' = p.cur
                /\ iters' = iters + 1
                /\ pc' = "decode_benobject"
                /\ UNCHANGED <<stack, ret>>
           ELSE LET e == skip_if_match(p.cur, B_e)
                IN  /\ bytes' = e.cur
                    /\ iters' = iters
                    /\ IF e.ok
                       THEN Return(Ok(L(Top.vec)), Pop)
                       ELSE Return(Err(MalformedList), Pop)
    /\ UNCHANGED <<input, overflow_checks, start, calls, invocations>>

\* decode_benlist after an element's decode_benobject has returned.
benlist_elem ==
    /\ pc = "benlist_elem"
    /\ IF IsErr(ret)
       THEN Return(ret, Pop)
       ELSE /\ stack' = SetTop([Top EXCEPT !.vec = Append(@, ret.ok)])
            /\ pc' = "benlist_loop"
            /\ ret' = NoRet
    /\ UNCHANGED <<input, overflow_checks, bytes, start, calls, iters, invocations>>

decode_benstring ==
    /\ pc = "decode_benstring"
    /\ invocations' = invocations + 1
    /\ LET r == benstring(bytes)
       IN  /\ bytes' = r.cur
           /\ Return(r.ret, stack)
    /\ UNCHANGED <<input, overflow_checks, start, calls, iters>>

Next ==
    \/ decode
    \/ decode_benobject
    \/ decode_bendict
    \/ bendict_loop
    \/ bendict_key
    \/ bendict_value
    \/ decode_benint
    \/ decode_benlist
    \/ benlist_loop
    \/ benlist_elem
    \/ decode_benstring

Spec == Init /\ [][Next]_vars

(***************************************************************************)
(* Vocabulary of the properties.                                           *)
(***************************************************************************)
Terminated == pc \in {"done", "aborted"}
Running == pc \notin {"idle", "done", "aborted"}

\* The byte the Peekable would hand out next, and the number of bytes of
\* the source that lie before it.
Lookahead == peek(bytes).val
Pos == bytes.pulled - (IF bytes.peeked # None /\ bytes.peeked[1] # None THEN 1 ELSE 0)

StartsWithAt(pos, enc) ==
    /\ pos + Len(enc) <= Len(input)
    /\ SubSeq(input, pos + 1, pos + Len(enc)) = enc

\* decode_benstring was entered for a dict key, not through the dispatch.
AtKey == pc = "decode_benstring" /\ stack # <<>> /\ Top.cont = "bendict_key"
\* decode_benstring was entered through the dispatch of decode_benobject.
AtDispatchedString == pc = "decode_benstring" /\ ~AtKey

\* Error kinds of the specification that have no message in the code.
UnexpectedByte == "unexpected byte"
InvalidDictKey == "invalid dict key"

\* The objects that the encodings used to build inputs stand for.
ObjOf(enc) ==
    CASE enc = <<49, 58, 97>> -> S(<<97>>)
      [] enc = <<49, 58, 98>> -> S(<<98>>)
      [] enc = <<58>> -> S(<<>>)
      [] enc = <<105, 49, 101>> -> I(<<1, 0, 0, 0>>)
      [] enc = <<105, 50, 101>> -> I(<<2, 0, 0, 0>>)
      [] enc = <<108, 101>> -> L(<<>>)

(***************************************************************************)
(* C1: at every object-start position, a next byte that is none of 'd',    *)
(* 'i', 'l' or a digit makes decode fail with UnexpectedByte, and with no  *)
(* object and no other error.                                              *)
(***************************************************************************)
C1_UnexpectedByte ==
    [][(AtDispatchedString /\ Lookahead # None /\ ~IsDigit(Lookahead[1]))
          => ret' = Err(UnexpectedByte)]_vars

(***************************************************************************)
(* C2: inside a dictionary, a non-string object at a key position makes    *)
(* decode fail with InvalidDictKey.                                        *)
(***************************************************************************)
\* "i1e"  "le"  "de"
NonStringEncs == {<<105, 49, 101>>, <<108, 101>>, <<100, 101>>}
C2_InvalidDictKey ==
    [][(AtKey /\ \E enc \in NonStringEncs : StartsWithAt(Pos, enc))
          => ret' = Err(InvalidDictKey)]_vars

(***************************************************************************)
(* C3: no input makes a decode call abort the process.                     *)
(***************************************************************************)
C3_NeverAborts == pc # "aborted"

(***************************************************************************)
(* C4: decoding 'l', complete elements, end of input fails with            *)
(* MalformedList, and the same input followed by 'e' decodes to the list   *)
(* of the elements.  C4_MalformedList is the claim as stated;              *)
(* C4_ObjectNotFound is the claim with the error the list rule returns:    *)
(* decoding 'l', elements that each decode to an object, end of input      *)
(* fails with ObjectNotFound, and the same input followed by 'e' decodes   *)
(* to the list of the elements in order.                                   *)
(***************************************************************************)
ElemSeqs == BoundedSeq(ElemEncs, MaxElems)
OpenList(es) == <<B_l>> \o Concat(es)
ClosedList(es) == <<B_l>> \o Concat(es) \o <<B_e>>
ListOf(es) == L([j \in 1..Len(es) |-> ObjOf(es[j])])

C4_Against(kind) ==
    (Terminated /\ start = 0) =>
        \A es \in ElemSeqs :
            /\ input = OpenList(es) => ret = Err(kind)
            /\ input = ClosedList(es) => ret = Ok(ListOf(es))

C4_MalformedList == C4_Against(MalformedList)
C4_ObjectNotFound == C4_Against(ObjectNotFound)

\* "l1:a" has been decoded.
C4_Witness ==
    /\ pc = "done"
    /\ input = <<108, 49, 58, 97>>
    /\ ret = Err(ObjectNotFound)

(***************************************************************************)
(* C5: whenever the input is exhausted where an object is expected (top    *)
(* level, list element, dict key, dict value), decode fails with           *)
(* ObjectNotFound.                                                         *)
(***************************************************************************)
ExhaustedWhereObjectExpected ==
    /\ Lookahead = None
    /\ pc = "decode_benobject" \/ AtKey

C5_ObjectNotFound ==
    [][ExhaustedWhereObjectExpected => ret' = Err(ObjectNotFound)]_vars

(***************************************************************************)
(* C6: for every n of the signed 64-bit range, the minimum and the maximum *)
(* included, decoding 'i', the decimal rendering of n, 'e' returns         *)
(* Integer(n).                                                             *)
(***************************************************************************)
\* n as its two's complement bits, its sign and its magnitude:
\* 0, 1, 42, 65536, 2^63-1, -1, -42, -65536, -(2^63-1), -2^63
I64Samples ==
    {[bits |-> Zero64, neg |-> FALSE, mag |-> Zero64],
     [bits |-> <<1, 0, 0, 0>>, neg |-> FALSE, mag |-> <<1, 0, 0, 0>>],
     [bits |-> <<42, 0, 0, 0>>, neg |-> FALSE, mag |-> <<42, 0, 0, 0>>],
     [bits |-> <<0, 1, 0, 0>>, neg |-> FALSE, mag |-> <<0, 1, 0, 0>>],
     [bits |-> <<65535, 65535, 65535, 32767>>, neg |-> FALSE,
      mag |-> <<65535, 65535, 65535, 32767>>],
     [bits |-> <<65535, 65535, 65535, 65535>>, neg |-> TRUE, mag |-> <<1, 0, 0, 0>>],
     [bits |-> <<65494, 65535, 65535, 65535>>, neg |-> TRUE, mag |-> <<42, 0, 0, 0>>],
     [bits |-> <<0, 65535, 65535, 65535>>, neg |-> TRUE, mag |-> <<0, 1, 0, 0>>],
     [bits |-> <<1, 0, 0, 32768>>, neg |-> TRUE,
      mag |-> <<65535, 65535, 65535, 32767>>],
     [bits |-> <<0, 0, 0, 32768>>, neg |-> TRUE, mag |-> <<0, 0, 0, 32768>>]}

IntInput(n) ==
    <<B_i>> \o (IF n.neg THEN <<B_minus>> ELSE <<>>) \o RenderU(n.mag) \o <<B_e>>

C6_IntegerRoundTrip ==
    Terminated =>
        \A n \in I64Samples :
            StartsWithAt(start, IntInput(n)) => ret = Ok(I(n.bits))

(***************************************************************************)
(* C7: the string rule with declared length n followed by ':' returns      *)
(* String of exactly the next n bytes when at least n bytes remain, and    *)
(* fails with LengthMismatch, never with a shorter string, when fewer      *)
(* remain.                                                                 *)
(***************************************************************************)
\* The run of digits at pos, read as a decimal number: big when it has
\* more than five significant digits (more than any input is long).
DigitRun(pos) ==
    LET ks == {k \in 0..(Len(input) - pos) :
                  \A j \in 1..k : IsDigit(input[pos + j])}
    IN  CHOOSE k \in ks : \A k2 \in ks : k2 <= k

RECURSIVE StripZeros(_)
StripZeros(ds) ==
    IF ds # <<>> /\ Head(ds) = B_0 THEN StripZeros(Tail(ds)) ELSE ds

RECURSIVE DecVal(_)
DecVal(ds) ==
    IF ds = <<>> THEN 0
    ELSE DecVal(SubSeq(ds, 1, Len(ds) - 1)) * 10 + (ds[Len(ds)] - B_0)

C7_Step ==
    LET k == DigitRun(Pos)
        q == Pos + k + 1
        sig == StripZeros(SubSeq(input, Pos + 1, Pos + k))
        remaining == Len(input) - q
    IN  (pc = "decode_benstring" /\ q <= Len(input) /\ input[q] = B_colon) =>
            IF Len(sig) <= 5 /\ DecVal(sig) <= remaining
            THEN ret' = Ok(S(SubSeq(input, q + 1, q + DecVal(sig))))
            ELSE ret' = Err(LengthMismatch)

C7_StringLength == [][C7_Step]_vars

(***************************************************************************)
(* C8: when a dictionary's input holds the same key more than once, the    *)
(* decoded Dict has one entry for that key, with the value of the last     *)
(* occurrence in input order; entries of other keys are unaffected.        *)
(***************************************************************************)
\* The key that a key encoding "1:x" stands for.
KeyOf(enc) == ObjOf(enc).S
LastOf(ps, key) ==
    CHOOSE j \in 1..Len(ps) :
        /\ KeyOf(ps[j][1]) = key
        /\ \A j2 \in (j + 1)..Len(ps) : KeyOf(ps[j2][1]) # key
DictOf(ps) ==
    D([key \in {KeyOf(ps[j][1]) : j \in 1..Len(ps)} |->
          ObjOf(ps[LastOf(ps, key)][2])])

Rank ==
    CASE pc \in {"benlist_elem", "bendict_key", "bendict_value"} -> 5
      [] pc \in {"benlist_loop", "bendict_loop"} -> 4
      [] pc = "decode_benobject" -> 3
      [] OTHER -> 2

Variant ==
    IF ~Running THEN 0
    ELSE IF IsErr(ret) THEN Len(stack)
    ELSE Len(input) + 1 + 6 * (Len(input) - start - bytes.taken) + Rank

CanStep ==
    /\ pc \in {"benlist_loop", "benlist_elem"} =>
           stack # <<>> /\ Top.fn = "decode_benlist"
    /\ pc \in {"bendict_loop", "bendict_key", "bendict_value"} =>
           stack # <<>> /\ Top.fn = "decode_bendict"
    /\ pc \in {"benlist_elem", "bendict_key", "bendict_value"} =>
           IsOk(ret) \/ IsErr(ret)

C9_Bounded ==
    /\ iters <= bytes.taken
    /\ invocations <= bytes.taken + 1
    /\ start + bytes.taken <= Len(input)
    /\ Variant >= 0
    /\ CanStep

C9_Advances == IsOk(ret') => bytes'.taken > bytes.taken

C9_Decreases == Running => Variant' < Variant

C9_Terminates ==
    /\ []C9_Bounded
    /\ [][C9_Advances /\ C9_Decreases]_vars

\* "l::e", a list of two empty strings with zero-digit lengths, has been
\* decoded in two iterations.
C9_Witness ==
    /\ pc = "done"
    /\ input = <<108, 58, 58, 101>>
    /\ iters = 2
    /\ ret = Ok(L(<<S(<<>>), S(<<>>)>>))

(***************************************************************************)
(* C10: when decode returns Ok, no lookahead byte is left in the Peekable  *)
(* and the bytes pulled from the caller's source are exactly the bytes the *)
(* rules consumed for the object; a further decode call on the same source *)
(* starts at the first byte after it, so decoding a concatenation of       *)
(* objects call by call returns them one by one.                           *)
(***************************************************************************)
C10_ExactConsumption ==
    /\ (pc = "done" /\ IsOk(ret)) =>
           /\ bytes.peeked = None
           /\ bytes.pulled = start + bytes.taken
    /\ pc = "done" =>
           \A es \in ElemSeqs :
               (input = Concat(es) /\ calls <= Len(es)) =>
                   /\ ret = Ok(ObjOf(es[calls]))
                   /\ start = Len(Concat(SubSeq(es, 1, calls - 1)))
                   /\ bytes.pulled = Len(Concat(SubSeq(es, 1, calls)))

\* The second call on "1:ai1e" has returned Integer(1).
C10_Witness ==
    /\ pc = "done"
    /\ input = <<49, 58, 97, 105, 49, 101>>
    /\ calls = 2
    /\ start = 3
    /\ ret = Ok(I(<<1, 0, 0, 0>>))

====
